---- MODULE Spec2Model ----
(***************************************************************************)
(* Model of the command security gate of apps/backend:                     *)
(*   project/command_registry/base.py   mode resolver and command tiers    *)
(*   security/validator_registry.py     validator dispatch                 *)
(*   security/network_validators.py     curl / wget validators             *)
(* Strings are TLA+ strings; character-level work (lower(), upper(),       *)
(* startswith, shlex.split, urlparse) is done with Len/SubSeq/Head/Tail.   *)
(***************************************************************************)
EXTENDS Integers, Sequences, FiniteSets, TLC

VARIABLES
  env,    \* os.environ entry SECURITY_STRICT_MODE: <<>> when unset, <<v>> when set
  call,   \* the last call made: function, argument, environment read, result
  prev,   \* the last collection-returning registry call made before `call`
  cmd,    \* the command string the gate has been handed ("" when none)
  seen,   \* the record of every validator call made so far
  gate    \* the gate decision under way: its step and what each step read

vars == <<env, call, prev, cmd, seen, gate>>

(***************************************************************************)
(* String helpers (Python str methods used by the code)                    *)
(***************************************************************************)

UpperLetters == "ABCDEFGHIJKLMNOPQRSTUVWXYZ"

LowerLetters == "abcdefghijklmnopqrstuvwxyz"

CharAt(s, i) == SubSeq(s, i, i)

RECURSIVE IndexFrom(_, _, _)
\* s.find(c, i) for a one-character c, 1-based; 0 when absent
IndexFrom(s, c, i) ==
  IF i > Len(s) THEN 0
  ELSE IF CharAt(s, i) = c THEN i
  ELSE IndexFrom(s, c, i + 1)

IndexOf(s, c) == IndexFrom(s, c, 1)

Contains(s, c) == IndexOf(s, c) # 0

StartsWith(s, p) == Len(s) >= Len(p) /\ SubSeq(s, 1, Len(p)) = p

LowerChar(c) ==
  LET k == IndexOf(UpperLetters, c)
  IN IF k = 0 THEN c ELSE CharAt(LowerLetters, k)

UpperChar(c) ==
  LET k == IndexOf(LowerLetters, c)
  IN IF k = 0 THEN c ELSE CharAt(UpperLetters, k)

RECURSIVE Lower(_)
\* str.lower()
Lower(s) == IF s = "" THEN "" ELSE LowerChar(Head(s)) \o Lower(Tail(s))

RECURSIVE Upper(_)
\* str.upper()
Upper(s) == IF s = "" THEN "" ELSE UpperChar(Head(s)) \o Upper(Tail(s))

\* Python None, for results that are "a value or None"
None == "None"

(***************************************************************************)
(* project/command_registry/base.py                                        *)
(***************************************************************************)

\* os.environ.get("SECURITY_STRICT_MODE", "")
environ_get(e) == IF e = <<>> THEN "" ELSE e[1]

is_strict_mode_no_lower(e) == environ_get(e) \in {"true", "1", "yes"}

is_strict_mode(e) == Lower(environ_get(e)) \in {"true", "1", "yes"}

SAFE_COMMANDS ==
  {
    "echo", "printf", "cat", "head", "tail", "less", "more", "ls", "pwd",
    "cd", "pushd", "popd", "cp", "mv", "mkdir", "rmdir", "touch", "ln",
    "find", "fd", "grep", "egrep", "fgrep", "rg", "ag", "sort", "uniq",
    "cut", "tr", "sed", "awk", "gawk", "wc", "diff", "cmp", "comm", "tee",
    "xargs", "read", "file", "stat", "tree", "du", "df", "which", "whereis",
    "type", "command", "date", "time", "sleep", "timeout", "watch", "true",
    "false", "test", "[", "[[", "env", "printenv", "export", "unset", "set",
    "source", ".", "exit", "return", "break", "continue", "tar", "zip",
    "unzip", "gzip", "gunzip", "ping", "host", "dig", "git", "gh", "ps",
    "pgrep", "lsof", "jobs", "kill", "pkill", "killall", "rm", "chmod",
    "paste", "join", "split", "fold", "fmt", "nl", "rev", "shuf", "column",
    "expand", "unexpand", "iconv", "clear", "reset", "man", "help", "uname",
    "whoami", "id", "basename", "dirname", "realpath", "readlink", "mktemp",
    "bc", "expr", "let", "seq", "yes", "jq", "yq"
  }

DANGEROUS_COMMANDS == {"eval", "exec", "sh", "bash", "zsh"}

NETWORK_COMMANDS == {"curl", "wget"}

\* the module constant kept for backward compatibility: the full set
BASE_COMMANDS == SAFE_COMMANDS \cup DANGEROUS_COMMANDS \cup NETWORK_COMMANDS

get_base_commands_full_set(e) == BASE_COMMANDS

get_base_commands_strict_safe_only(e) ==
  IF is_strict_mode(e)
  THEN SAFE_COMMANDS
  ELSE SAFE_COMMANDS \cup DANGEROUS_COMMANDS \cup NETWORK_COMMANDS

get_base_commands(e) ==
  IF is_strict_mode(e)
  THEN SAFE_COMMANDS \cup NETWORK_COMMANDS
  ELSE SAFE_COMMANDS \cup DANGEROUS_COMMANDS \cup NETWORK_COMMANDS

\* {**a, **b}: the entries of a, overridden and extended by those of b
DictMerge(a, b) == b @@ a

\* dict.get(k): the value, or None
DictGet(d, k) == IF k \in DOMAIN d THEN d[k] ELSE None

base_BASE_VALIDATORS ==
  ("rm" :> "validate_rm") @@ ("chmod" :> "validate_chmod") @@
  ("pkill" :> "validate_pkill") @@ ("kill" :> "validate_kill") @@
  ("killall" :> "validate_killall")

base_STRICT_VALIDATORS ==
  ("curl" :> "validate_curl") @@ ("wget" :> "validate_wget")

get_validated_commands_strict_only(e) ==
  IF is_strict_mode(e) THEN base_STRICT_VALIDATORS ELSE base_BASE_VALIDATORS

get_validated_commands(e) ==
  IF is_strict_mode(e)
  THEN DictMerge(base_BASE_VALIDATORS, base_STRICT_VALIDATORS)
  ELSE base_BASE_VALIDATORS

(***************************************************************************)
(* security/validator_registry.py                                          *)
(***************************************************************************)

registry_BASE_VALIDATORS ==
  ("pkill" :> "validate_pkill_command") @@
  ("kill" :> "validate_kill_command") @@
  ("killall" :> "validate_killall_command") @@
  ("chmod" :> "validate_chmod_command") @@
  ("rm" :> "validate_rm_command") @@
  ("init.sh" :> "validate_init_script") @@
  ("git" :> "validate_git_commit") @@
  ("dropdb" :> "validate_dropdb_command") @@
  ("dropuser" :> "validate_dropuser_command") @@
  ("psql" :> "validate_psql_command") @@
  ("mysql" :> "validate_mysql_command") @@
  ("mariadb" :> "validate_mysql_command") @@
  ("mysqladmin" :> "validate_mysqladmin_command") @@
  ("redis-cli" :> "validate_redis_cli_command") @@
  ("mongosh" :> "validate_mongosh_command") @@
  ("mongo" :> "validate_mongosh_command")

registry_STRICT_VALIDATORS ==
  ("curl" :> "validate_curl_command") @@ ("wget" :> "validate_wget_command")

get_validators(e) ==
  IF is_strict_mode(e)
  THEN DictMerge(registry_BASE_VALIDATORS, registry_STRICT_VALIDATORS)
  ELSE registry_BASE_VALIDATORS

\* the module constant kept for backward compatibility: base validators only
VALIDATORS == registry_BASE_VALIDATORS

get_validator_from_VALIDATORS(e, command_name) ==
  DictGet(VALIDATORS, command_name)

get_validator(e, command_name) == DictGet(get_validators(e), command_name)

(***************************************************************************)
(* security/network_validators.py                                          *)
(***************************************************************************)

ALLOWED_HOSTS == {"localhost", "127.0.0.1", "::1", "0.0.0.0"}

CURL_UPLOAD_FLAGS ==
  {"-d", "--data", "--data-raw", "--data-binary", "--data-urlencode",
   "--data-ascii", "-F", "--form", "-T", "--upload-file", "--json"}

WGET_UPLOAD_FLAGS ==
  {"--post-data", "--post-file", "--body-data", "--body-file", "--method"}

\* the methods the validators treat as uploads
UPLOAD_METHODS == {"POST", "PUT", "PATCH"}

EmitToken(out, token, quoted) ==
  IF token # "" \/ quoted THEN Append(out, token) ELSE out

\* shlex.split(command_string): shlex with posix=True, whitespace_split=True
\* and no comment characters.  ShlexStep is one round of the loop of
\* shlex.read_token on the character c; state is " " (between words), "a" (in
\* a word), a quote character or the escape character; out collects the
\* tokens already emitted.
ShlexWhitespace == {" ", "\t", "\r", "\n"}

ShlexQuotes == {"'", "\""}

ShlexStart ==
  [state |-> " ", escapedstate |-> " ", token |-> "", quoted |-> FALSE,
   out |-> <<>>]

ShlexStep(st, c) ==
  IF st.state \in {" ", "a"} THEN
    IF c \in ShlexWhitespace THEN
      IF st.token # "" \/ st.quoted
      THEN [ShlexStart EXCEPT !.out = Append(st.out, st.token)]
      ELSE [st EXCEPT !.state = " "]
    ELSE IF c = "\\" THEN [st EXCEPT !.state = "\\", !.escapedstate = "a"]
    ELSE IF c \in ShlexQuotes THEN [st EXCEPT !.state = c]
    ELSE [st EXCEPT !.state = "a", !.token = st.token \o c]
  ELSE IF st.state \in ShlexQuotes THEN
    IF c = st.state THEN [st EXCEPT !.state = "a", !.quoted = TRUE]
    ELSE IF c = "\\" /\ st.state = "\"" THEN
      [st EXCEPT !.state = "\\", !.escapedstate = st.state, !.quoted = TRUE]
    ELSE [st EXCEPT !.token = st.token \o c, !.quoted = TRUE]
  ELSE \* st.state = "\\"
    [st EXCEPT
       !.state = st.escapedstate,
       !.token =
         IF st.escapedstate \in ShlexQuotes /\ c # "\\" /\ c # st.escapedstate
         THEN (st.token \o "\\") \o c
         ELSE st.token \o c]

RECURSIVE ShlexRun(_, _, _, _)
\* the rounds for the characters s[lo..hi] in order, started from st; the
\* range is halved so that the evaluation stays shallow on long strings, and
\* a scanner past the end of input (state None) reads nothing more
ShlexRun(s, lo, hi, st) ==
  IF lo > hi THEN st
  ELSE IF lo = hi THEN ShlexStep(st, CharAt(s, lo))
  ELSE LET mid == (lo + hi) \div 2
           left == ShlexRun(s, lo, mid, st)
       IN IF left.state = None THEN left
          ELSE ShlexRun(s, mid + 1, hi, left)

\* end of input: ValueError("No closing quotation") inside quotes,
\* ValueError("No escaped character") after an escape, else the last token
shlex_split(s) ==
  LET st == ShlexRun(s, 1, Len(s), ShlexStart)
  IN IF st.state \in ShlexQuotes \/ st.state = "\\"
     THEN [ok |-> FALSE, tokens |-> <<>>]
     ELSE [ok |-> TRUE, tokens |-> EmitToken(st.out, st.token, st.quoted)]

\* token == flag or token.startswith(f"{flag}=")
MatchesFlag(token, flag) == token = flag \/ StartsWith(token, flag \o "=")

IsUrlToken(token) ==
  \/ StartsWith(token, "http://")
  \/ StartsWith(token, "https://")
  \/ StartsWith(token, "ftp://")

RECURSIVE ExtractUrlFrom(_, _, _, _)
\* the loop of _extract_url_from_tokens from position i on
ExtractUrlFrom(tokens, skip_flags, i, skip_next) ==
  IF i > Len(tokens) THEN None
  ELSE LET token == tokens[i] IN
    IF skip_next THEN ExtractUrlFrom(tokens, skip_flags, i + 1, FALSE)
    ELSE IF StartsWith(token, "-") THEN
      ExtractUrlFrom(tokens, skip_flags, i + 1,
                     /\ \E flag \in skip_flags : MatchesFlag(token, flag)
                     /\ ~Contains(token, "="))
    ELSE IF IsUrlToken(token) THEN token
    ELSE IF Contains(token, ".") \/ token \in ALLOWED_HOSTS
    THEN "http://" \o token
    ELSE ExtractUrlFrom(tokens, skip_flags, i + 1, FALSE)

_extract_url_from_tokens(tokens, skip_flags) ==
  ExtractUrlFrom(tokens, skip_flags, 2, FALSE)

\* s.partition(c): <<before, found, after>>
Partition(s, c) ==
  LET k == IndexOf(s, c)
  IN IF k = 0 THEN <<s, FALSE, "">>
     ELSE <<SubSeq(s, 1, k - 1), TRUE, SubSeq(s, k + 1, Len(s))>>

RECURSIVE LastIndexFrom(_, _, _)
LastIndexFrom(s, c, i) ==
  IF i < 1 THEN 0
  ELSE IF CharAt(s, i) = c THEN i
  ELSE LastIndexFrom(s, c, i - 1)

\* s.rpartition(c)[2]
AfterLast(s, c) ==
  LET k == LastIndexFrom(s, c, Len(s))
  IN IF k = 0 THEN s ELSE SubSeq(s, k + 1, Len(s))

RECURSIVE RemoveChars(_, _)
RemoveChars(s, bad) ==
  IF s = "" THEN ""
  ELSE IF Head(s) \in bad THEN RemoveChars(Tail(s), bad)
  ELSE Head(s) \o RemoveChars(Tail(s), bad)

RECURSIVE AllCharsIn(_, _)
AllCharsIn(s, allowed) ==
  s = "" \/ (Contains(allowed, Head(s)) /\ AllCharsIn(Tail(s), allowed))

SchemeChars == (LowerLetters \o UpperLetters) \o "0123456789+-."

\* the end of the network location: the first of / ? # from position start
RECURSIVE NetlocEnd(_, _)
NetlocEnd(url, i) ==
  IF i > Len(url) THEN i
  ELSE IF CharAt(url, i) \in {"/", "?", "#"} THEN i
  ELSE NetlocEnd(url, i + 1)

\* the address forms urlsplit accepts between brackets: an IPv6 literal
\* (hexadecimal groups separated by colons), anything else raises ValueError
IsBracketedAddress(h) ==
  /\ Contains(h, ":")
  /\ AllCharsIn(h, "0123456789abcdefABCDEF:.")

\* urlparse(url).hostname: [raised, hostname], hostname None given as ""
urlparse_hostname(url0) ==
  LET url1 == RemoveChars(url0, {"\t", "\r", "\n"})
      k == IndexOf(url1, ":")
      has_scheme ==
        /\ k > 1
        /\ Contains(LowerLetters \o UpperLetters, CharAt(url1, 1))
        /\ AllCharsIn(SubSeq(url1, 1, k - 1), SchemeChars)
      url2 == IF has_scheme THEN SubSeq(url1, k + 1, Len(url1)) ELSE url1
      has_netloc == StartsWith(url2, "//")
      netloc ==
        IF has_netloc THEN SubSeq(url2, 3, NetlocEnd(url2, 3) - 1) ELSE ""
      open_br == Contains(netloc, "[")
      close_br == Contains(netloc, "]")
      bracketed_host == Partition(Partition(netloc, "[")[3], "]")[1]
      invalid ==
        \/ open_br # close_br
        \/ open_br /\ close_br /\ ~IsBracketedAddress(bracketed_host)
      hostinfo == AfterLast(netloc, "@")
      br == Partition(hostinfo, "[")
      hostname ==
        IF br[2] THEN Partition(br[3], "]")[1]
        ELSE Partition(hostinfo, ":")[1]
      zone == Partition(hostname, "%")
  IN IF invalid THEN [raised |-> TRUE, hostname |-> ""]
     ELSE [raised |-> FALSE,
           hostname |-> IF zone[2]
                        THEN (Lower(zone[1]) \o "%") \o zone[3]
                        ELSE Lower(hostname)]

_is_localhost(url) ==
  LET parsed == urlparse_hostname(url)
  IN ~parsed.raised /\ Lower(parsed.hostname) \in ALLOWED_HOSTS

CURL_SKIP_FLAGS ==
  {"-o", "--output", "-O", "-H", "--header", "-A", "--user-agent", "-e",
   "--referer", "-u", "--user", "-x", "--proxy", "-b", "--cookie", "-c",
   "--cookie-jar", "--connect-timeout", "--max-time", "-w", "--write-out",
   "--retry", "--retry-delay"} \cup CURL_UPLOAD_FLAGS

WGET_SKIP_FLAGS ==
  {"-O", "--output-document", "-o", "--output-file", "-a", "--append-output",
   "--header", "--user-agent", "-U", "--referer", "--user", "--password",
   "--proxy-user", "--proxy-password", "-e", "--execute", "-t", "--tries",
   "-T", "--timeout", "-w", "--wait", "--limit-rate", "-P",
   "--directory-prefix"} \cup WGET_UPLOAD_FLAGS

\* a validator's return: the (ok, reason) pair, or the exception that left it
Returned(ok, reason) == [ok |-> ok, reason |-> reason, raised |-> ""]

Raised(exc) == [ok |-> FALSE, reason |-> "", raised |-> exc]

BlockedTail ==
  " blocked in strict mode (potential data exfiltration). " \o
  "Only GET requests allowed to external hosts. " \o
  "Localhost requests are unrestricted."

\* the upload flag a token matches, None when it matches none
UploadFlagOf(token, flags) ==
  IF \E flag \in flags : MatchesFlag(token, flag)
  THEN CHOOSE flag \in flags : MatchesFlag(token, flag)
  ELSE None

RECURSIVE CurlScan(_, _, _)
\* the while loop of validate_curl_command from index i on; found holds
\* has_upload_data, upload_flag_found and explicit_method
CurlScan(tokens, i, found) ==
  IF i > Len(tokens) THEN found
  ELSE
    LET token == tokens[i]
        flag == UploadFlagOf(token, CURL_UPLOAD_FLAGS)
        takes_method == token \in {"-X", "--request"} /\ i + 1 <= Len(tokens)
        i1 == IF takes_method THEN i + 1 ELSE i
        i2 == IF StartsWith(token, "-") /\ token \in CURL_SKIP_FLAGS
              THEN i1 + 1 ELSE i1
    IN CurlScan(tokens, i2 + 1,
         [has_upload_data |-> found.has_upload_data \/ flag # None,
          upload_flag_found |->
            IF flag # None THEN flag ELSE found.upload_flag_found,
          explicit_method |->
            IF takes_method THEN Upper(tokens[i + 1])
            ELSE found.explicit_method])

NothingFound ==
  [has_upload_data |-> FALSE, upload_flag_found |-> None,
   explicit_method |-> None]

Decide_any_method(tool, method_prefix, found, url) ==
  IF url # None /\ _is_localhost(url) THEN Returned(TRUE, "")
  ELSE IF found.has_upload_data \/ found.explicit_method # None
  THEN Returned(FALSE,
         ((tool \o method_prefix) \o found.explicit_method) \o BlockedTail)
  ELSE Returned(TRUE, "")

Decide_reason_on_localhost(tool, method_prefix, found, url) ==
  IF url # None /\ _is_localhost(url)
  THEN Returned(TRUE, "Localhost requests are unrestricted.")
  ELSE IF found.has_upload_data \/ found.explicit_method \in UPLOAD_METHODS
  THEN IF found.upload_flag_found # None
       THEN Returned(FALSE,
              (((tool \o " with '") \o found.upload_flag_found) \o "'")
              \o BlockedTail)
       ELSE Returned(FALSE,
              ((tool \o method_prefix) \o found.explicit_method)
              \o BlockedTail)
  ELSE Returned(TRUE, "")

\* the decision both validators end with, once the scan and the URL are known
Decide(tool, method_prefix, found, url) ==
  IF url # None /\ _is_localhost(url) THEN Returned(TRUE, "")
  ELSE IF found.has_upload_data \/ found.explicit_method \in UPLOAD_METHODS
  THEN IF found.upload_flag_found # None
       THEN Returned(FALSE,
              (((tool \o " with '") \o found.upload_flag_found) \o "'")
              \o BlockedTail)
       ELSE Returned(FALSE,
              ((tool \o method_prefix) \o found.explicit_method)
              \o BlockedTail)
  ELSE Returned(TRUE, "")

\* validate_curl_command once the command string is tokenized
validate_curl_tokens(tokens) ==
  IF tokens = <<>> \/ tokens[1] # "curl"
  THEN Returned(FALSE, "Not a curl command")
  ELSE Decide("curl", " ", CurlScan(tokens, 2, NothingFound),
              _extract_url_from_tokens(tokens, CURL_SKIP_FLAGS))

validate_curl_command_uncaught(command_string) ==
  LET split == shlex_split(command_string)
  IN IF ~split.ok THEN Raised("ValueError")
     ELSE validate_curl_tokens(split.tokens)

validate_curl_command_strict_only(command_string) ==
  LET split == shlex_split(command_string)
  IN IF ~is_strict_mode(env) THEN Returned(TRUE, "")
     ELSE IF ~split.ok THEN Returned(FALSE, "Could not parse curl command")
     ELSE validate_curl_tokens(split.tokens)

validate_curl_command(command_string) ==
  LET split == shlex_split(command_string)
  IN IF ~split.ok THEN Returned(FALSE, "Could not parse curl command")
     ELSE validate_curl_tokens(split.tokens)

RECURSIVE WgetScan(_, _, _)
\* the while loop of validate_wget_command from index i on
WgetScan(tokens, i, found) ==
  IF i > Len(tokens) THEN found
  ELSE
    LET token == tokens[i]
        flag == UploadFlagOf(token, WGET_UPLOAD_FLAGS)
        takes_method == token = "--method" /\ i + 1 <= Len(tokens)
        inline_method == token # "--method" /\ StartsWith(token, "--method=")
        i1 == IF takes_method THEN i + 1 ELSE i
        i2 == IF StartsWith(token, "-") /\ token \in WGET_SKIP_FLAGS
              THEN i1 + 1 ELSE i1
    IN WgetScan(tokens, i2 + 1,
         [has_upload_data |-> found.has_upload_data \/ flag # None,
          upload_flag_found |->
            IF flag # None THEN flag ELSE found.upload_flag_found,
          explicit_method |->
            IF takes_method THEN Upper(tokens[i + 1])
            ELSE IF inline_method
            THEN Upper(SubSeq(token, IndexOf(token, "=") + 1, Len(token)))
            ELSE found.explicit_method])

RECURSIVE WgetUrlFrom(_, _)
\* the reversed(tokens[1:]) loop of validate_wget_command from index i down
WgetUrlFrom(tokens, i) ==
  IF i < 2 THEN None
  ELSE IF ~StartsWith(tokens[i], "-") /\ IsUrlToken(tokens[i]) THEN tokens[i]
  ELSE WgetUrlFrom(tokens, i - 1)

validate_wget_command_strict_only(command_string) ==
  LET split == shlex_split(command_string)
      tokens == split.tokens
  IN IF ~is_strict_mode(env) THEN Returned(TRUE, "")
     ELSE IF ~split.ok THEN Returned(FALSE, "Could not parse wget command")
     ELSE IF tokens = <<>> \/ tokens[1] # "wget"
     THEN Returned(FALSE, "Not a wget command")
     ELSE Decide("wget", " --method=", WgetScan(tokens, 2, NothingFound),
                 WgetUrlFrom(tokens, Len(tokens)))

validate_wget_command(command_string) ==
  LET split == shlex_split(command_string)
      tokens == split.tokens
  IN IF ~split.ok THEN Returned(FALSE, "Could not parse wget command")
     ELSE IF tokens = <<>> \/ tokens[1] # "wget"
     THEN Returned(FALSE, "Not a wget command")
     ELSE Decide("wget", " --method=", WgetScan(tokens, 2, NothingFound),
                 WgetUrlFrom(tokens, Len(tokens)))

(***************************************************************************)
(* Inputs of the registry specification                                    *)
(***************************************************************************)

\* values the setting is given: truthy spellings, padded, empty and falsy ones
EnvValues == {"true", "TRUE", "1", "Yes", "", " true", "0"}

\* names asked of the dispatcher
ValidatorQueries == {"curl", "wget", "rm", "psql", "bash"}

NoCall == [fn |-> "none", arg |-> "", env |-> <<>>, ret |-> None]

\* no gate decision under way
NoGate ==
  [pc |-> "idle", name |-> "", modes |-> <<>>, validator |-> None,
   outcome |-> None]

\* the calls that return a collection computed from the mode
CollectionFns ==
  {"get_base_commands", "get_validated_commands", "get_validators"}

(***************************************************************************)
(* Registry actions                                                        *)
(***************************************************************************)

\* os.environ["SECURITY_STRICT_MODE"] = v
SetEnv(v) ==
  /\ env' = <<v>>
  /\ UNCHANGED <<call, prev, cmd, seen, gate>>

\* os.environ.pop("SECURITY_STRICT_MODE", None)
PopEnv ==
  /\ env' = <<>>
  /\ UNCHANGED <<call, prev, cmd, seen, gate>>

Record(fn, arg, ret) ==
  /\ call' = [fn |-> fn, arg |-> arg, env |-> env, ret |-> ret]
  /\ prev' = IF call.fn \in CollectionFns THEN call ELSE prev
  /\ UNCHANGED <<env, cmd, gate>>

CallIsStrictMode ==
  /\ Record("is_strict_mode", "", is_strict_mode(env))
  /\ UNCHANGED seen

CallGetBaseCommands ==
  /\ Record("get_base_commands", "", get_base_commands(env))
  /\ UNCHANGED seen

CallGetValidatedCommands ==
  /\ Record("get_validated_commands", "", get_validated_commands(env))
  /\ UNCHANGED seen

CallGetValidators ==
  /\ Record("get_validators", "", get_validators(env))
  /\ UNCHANGED seen

CallGetValidator(name) ==
  /\ Record("get_validator", name, get_validator(env, name))
  /\ UNCHANGED seen

Init ==
  /\ env \in {<<>>} \cup {<<v>> : v \in EnvValues}
  /\ call = NoCall
  /\ prev = NoCall
  /\ cmd = ""
  /\ seen = {}
  /\ gate = NoGate

Next ==
  \/ \E v \in EnvValues : SetEnv(v)
  \/ PopEnv
  \/ CallIsStrictMode
  \/ CallGetBaseCommands
  \/ CallGetValidatedCommands
  \/ CallGetValidators
  \/ \E name \in ValidatorQueries : CallGetValidator(name)

Spec == Init /\ [][Next]_vars

(***************************************************************************)
(* The network validators applied to command strings                       *)
(***************************************************************************)

\* the most shell words a command carries after the tool name
MaxArgs == 3

\* shell words as typed: upload flags, method options and values, options
\* the scans skip an argument for, quoted and unterminated words, URLs
CurlWords ==
  {"-d", "--data-raw=x", "-X", "--request=POST", "Post", "-O", "-H",
   "\"a: b\"", "https://e.com", "http://LocalHost:80/p", "localhost", "'x"}

WgetWords ==
  {"--post-data=x", "--body-file", "--method", "--method=put", "POST", "GET",
   "-O", "https://e.com", "http://127.0.0.1:3000", "'x"}

ArgLists(words) == UNION {[1..n -> words] : n \in 0..MaxArgs}

RECURSIVE JoinWords(_)
\* the words separated by single spaces
JoinWords(ws) ==
  IF ws = <<>> THEN ""
  ELSE IF Len(ws) = 1 THEN ws[1]
  ELSE (ws[1] \o " ") \o JoinWords(Tail(ws))

\* inputs given to both validators: empty and blank strings, another
\* program, each tool's own commands, a trailing escape, a quoted word
OtherCommands ==
  {"", "  ", "''", "ls -la", "curl", "wget", "/usr/bin/curl -d x https://e.com",
   "curl -d x https://e.com", "wget --post-data=x https://e.com",
   "wget http://127.0.0.1:3000", "curl x\\", "wget \"a b\" https://e.com",
   "curl -X localhost --data-raw=x https://e.com"}

CurlInputs ==
  {JoinWords(<<"curl">> \o a) : a \in ArgLists(CurlWords)} \cup OtherCommands

WgetInputs ==
  {JoinWords(<<"wget">> \o a) : a \in ArgLists(WgetWords)} \cup OtherCommands

Commands == CurlInputs \cup WgetInputs

CallValidateCurl ==
  /\ cmd \in CurlInputs
  /\ LET ret == validate_curl_command(cmd)
     IN /\ Record("validate_curl_command", cmd, ret)
        /\ seen' = seen \cup {call'}

CallValidateWget ==
  /\ cmd \in WgetInputs
  /\ LET ret == validate_wget_command(cmd)
     IN /\ Record("validate_wget_command", cmd, ret)
        /\ seen' = seen \cup {call'}

InitNet ==
  /\ env = <<"true">>
  /\ call = NoCall
  /\ prev = NoCall
  /\ cmd \in Commands
  /\ seen = {}
  /\ gate = NoGate

NextNet ==
  \/ CallValidateCurl
  \/ CallValidateWget

SpecNet == InitNet /\ [][NextNet]_vars

(***************************************************************************)
(* The validators called again and again while the mode is toggled         *)
(***************************************************************************)

\* values the setting is toggled between
ToggleValues == {"true", "0"}

InitPure ==
  /\ env \in {<<>>, <<"true">>}
  /\ call = NoCall
  /\ prev = NoCall
  /\ cmd \in OtherCommands
  /\ seen = {}
  /\ gate = NoGate

NextPure ==
  \/ \E v \in ToggleValues : SetEnv(v)
  \/ PopEnv
  \/ CallValidateCurl
  \/ CallValidateWget

SpecPure == InitPure /\ [][NextPure]_vars

(***************************************************************************)
(* The gate decision: classify, dispatch, run the validator, each a step   *)
(* of its own, with the setting changed and read by others in between      *)
(***************************************************************************)

\* commands handed to the gate: network tools with and without an upload,
\* a shell of the Dangerous tier, a Safe command, a database client that
\* has a validator but is in no tier, a command nobody knows
GateCommands ==
  {"curl -d x https://e.com", "wget --post-data=x https://e.com",
   "wget http://127.0.0.1:3000", "bash -c x", "ls -la", "psql -c x",
   "frobnicate"}

\* the base token of a command string
CommandName(c) == shlex_split(c).tokens[1]

\* the validator function the dispatcher returned, applied to the command
RunValidator(validator, c) ==
  CASE validator = "validate_curl_command" -> validate_curl_command(c)
    [] validator = "validate_wget_command" -> validate_wget_command(c)

\* step 1: the name is looked up in get_base_commands(); a name that is not
\* permitted is rejected at once, no validator is asked for
GateClassify ==
  /\ gate.pc \in {"idle", "done"}
  /\ LET name == CommandName(cmd)
         permitted == name \in get_base_commands(env)
     IN gate' = [pc |-> IF permitted THEN "classified" ELSE "done",
                 name |-> name,
                 modes |-> <<is_strict_mode(env)>>,
                 validator |-> None,
                 outcome |-> IF permitted THEN None ELSE "deny"]
  /\ UNCHANGED <<env, call, prev, cmd, seen>>

\* step 2: get_validator(name)
GateDispatch ==
  /\ gate.pc = "classified"
  /\ gate' = [gate EXCEPT !.pc = "dispatched",
                          !.modes = Append(@, is_strict_mode(env)),
                          !.validator = get_validator(env, gate.name)]
  /\ UNCHANGED <<env, call, prev, cmd, seen>>

\* step 3: the validator, if there is one, is run on the whole command string
\* and its result decides; without a validator the command is allowed
GateRun ==
  /\ gate.pc = "dispatched"
  /\ gate' = [gate EXCEPT
                !.pc = "done",
                !.outcome = IF gate.validator = None THEN "allow"
                            ELSE IF RunValidator(gate.validator, cmd).ok
                            THEN "allow" ELSE "deny"]
  /\ UNCHANGED <<env, call, prev, cmd, seen>>

InitGate ==
  /\ env \in {<<>>, <<"true">>}
  /\ call = NoCall
  /\ prev = NoCall
  /\ cmd \in GateCommands
  /\ seen = {}
  /\ gate = NoGate

NextGate ==
  \/ \E v \in ToggleValues : SetEnv(v)
  \/ PopEnv
  \/ CallIsStrictMode
  \/ \E name \in NETWORK_COMMANDS : CallGetValidator(name)
  \/ GateClassify
  \/ GateDispatch
  \/ GateRun

SpecGate == InitGate /\ [][NextGate]_vars

(***************************************************************************)
(* Properties of the mode resolver, classifier and dispatcher              *)
(***************************************************************************)

\* the spellings of the setting that select Strict mode, written out
TruthySpellings ==
  {
    "true", "truE", "trUe", "trUE", "tRue", "tRuE", "tRUe", "tRUE", "True",
    "TruE", "TrUe", "TrUE", "TRue", "TRuE", "TRUe", "TRUE", "1", "yes", "yeS",
    "yEs", "yES", "Yes", "YeS", "YEs", "YES"
  }

\* the mode in force when the environment is e
StrictAt(e) == e # <<>> /\ e[1] \in TruthySpellings

SameMode(c, d) == StrictAt(c.env) = StrictAt(d.env)

\* C1: get_base_commands() returns exactly SAFE + NETWORK in Strict mode and
\* exactly SAFE + DANGEROUS + NETWORK in Normal mode: eval, exec, sh, bash and
\* zsh are absent from the Strict result and present in the Normal result, and
\* curl and wget are present in both.
C1_BaseCommandsByMode ==
  call.fn = "get_base_commands" =>
    /\ {"curl", "wget"} \subseteq call.ret
    /\ IF StrictAt(call.env)
       THEN /\ call.ret = SAFE_COMMANDS \cup NETWORK_COMMANDS
            /\ call.ret \cap {"eval", "exec", "sh", "bash", "zsh"} = {}
       ELSE /\ call.ret =
                 SAFE_COMMANDS \cup DANGEROUS_COMMANDS \cup NETWORK_COMMANDS
            /\ {"eval", "exec", "sh", "bash", "zsh"} \subseteq call.ret

\* get_base_commands() has been called in Normal mode and then in Strict mode
C1_Witness ==
  /\ prev.fn = "get_base_commands" /\ ~StrictAt(prev.env)
  /\ call.fn = "get_base_commands" /\ StrictAt(call.env)
  /\ "bash" \in prev.ret /\ "bash" \notin call.ret

\* C2: is_strict_mode() returns true iff the value of SECURITY_STRICT_MODE,
\* compared case-insensitively, is exactly "true", "1" or "yes"; it returns
\* false for every other value, the empty, the padded and the absent included.
C2_StrictIffTruthy ==
  call.fn = "is_strict_mode" => (call.ret = StrictAt(call.env))

\* is_strict_mode() has returned true for an upper-case spelling
C2_Witness ==
  /\ call.fn = "is_strict_mode"
  /\ call.env = <<"TRUE">>
  /\ call.ret = TRUE

\* the result each registry call has in a mode, written from the tier tables
ResultInMode(fn, arg, strict) ==
  CASE fn = "get_base_commands" ->
         IF strict THEN SAFE_COMMANDS \cup NETWORK_COMMANDS
         ELSE SAFE_COMMANDS \cup DANGEROUS_COMMANDS \cup NETWORK_COMMANDS
    [] fn = "get_validated_commands" ->
         IF strict THEN base_STRICT_VALIDATORS @@ base_BASE_VALIDATORS
         ELSE base_BASE_VALIDATORS
    [] fn = "get_validators" ->
         IF strict THEN registry_STRICT_VALIDATORS @@ registry_BASE_VALIDATORS
         ELSE registry_BASE_VALIDATORS
    [] fn = "get_validator" ->
         IF arg \in DOMAIN registry_BASE_VALIDATORS
         THEN registry_BASE_VALIDATORS[arg]
         ELSE IF strict /\ arg \in DOMAIN registry_STRICT_VALIDATORS
         THEN registry_STRICT_VALIDATORS[arg]
         ELSE None

\* C3: after any sequence of toggles of the setting, each call of
\* get_base_commands(), get_validated_commands(), get_validators() or
\* get_validator() returns the result of the mode in force at that call; the
\* result of an earlier call made under the other mode is not returned again.
C3_FreshModeOnEveryCall ==
  /\ call.fn \in CollectionFns \cup {"get_validator"} =>
       call.ret = ResultInMode(call.fn, call.arg, StrictAt(call.env))
  /\ (call.fn \in CollectionFns /\ prev.fn = call.fn /\ ~SameMode(prev, call))
       => call.ret # prev.ret

\* the same function was called under Strict, the setting was changed, and it
\* was called again under Normal; the setting has since been changed back
C3_Witness ==
  /\ call.fn = "get_validators" /\ prev.fn = "get_validators"
  /\ StrictAt(prev.env) /\ ~StrictAt(call.env)
  /\ StrictAt(env)

NetworkTools == {"curl", "wget"}

\* what C4 asks of two results of the same function, one per mode
StrictAddsExactlyNetworkTools(normal, strict) ==
  /\ DOMAIN strict = DOMAIN normal \cup NetworkTools
  /\ DOMAIN normal \cap NetworkTools = {}
  /\ \A k \in DOMAIN normal : strict[k] = normal[k]

\* C4: the commands with a validator in Strict mode are those of Normal mode
\* plus exactly curl and wget, no base entry removed or remapped, both for
\* get_validated_commands() and for the dispatcher: get_validator("curl") and
\* get_validator("wget") return a validator in Strict mode, None in Normal.
C4_StrictAddsCurlAndWget ==
  /\ ( /\ call.fn \in {"get_validated_commands", "get_validators"}
       /\ prev.fn = call.fn
       /\ ~SameMode(prev, call) )
     => IF StrictAt(call.env)
        THEN StrictAddsExactlyNetworkTools(prev.ret, call.ret)
        ELSE StrictAddsExactlyNetworkTools(call.ret, prev.ret)
  /\ (call.fn = "get_validator" /\ call.arg \in NetworkTools)
     => ((call.ret # None) <=> StrictAt(call.env))

\* get_validated_commands() was called in Normal and then in Strict mode
C4_Witness ==
  /\ prev.fn = "get_validated_commands" /\ ~StrictAt(prev.env)
  /\ call.fn = "get_validated_commands" /\ StrictAt(call.env)
  /\ "curl" \in DOMAIN call.ret /\ "rm" \in DOMAIN call.ret

\* every key of get_validated_commands() is in get_base_commands(), same mode
ValidatedKeysAreBaseCommands ==
  ( /\ prev.fn = "get_base_commands"
    /\ call.fn = "get_validated_commands"
    /\ SameMode(prev, call) )
  => DOMAIN call.ret \subseteq prev.ret

\* C5 as stated: in every mode, every name with a validator registered for
\* that mode, be it a key of get_validated_commands() or a name for which
\* get_validator returns a validator, is in get_base_commands() of that mode.
C5_Original ==
  /\ ValidatedKeysAreBaseCommands
  /\ ( /\ prev.fn = "get_base_commands"
       /\ call.fn = "get_validator" /\ call.ret # None
       /\ SameMode(prev, call) )
     => call.arg \in prev.ret

\* names the dispatcher validates that no base tier lists
DispatcherOnlyNames ==
  {"init.sh", "dropdb", "dropuser", "psql", "mysql", "mariadb", "mysqladmin",
   "redis-cli", "mongosh", "mongo"}

\* C5 as amended: every key of get_validated_commands() is in
\* get_base_commands() of the same mode, and so is every name for which
\* get_validator returns a validator, except the names the dispatcher alone
\* validates (init.sh and the database clients), which no base tier lists.
C5_ValidatedWithinBase ==
  /\ ValidatedKeysAreBaseCommands
  /\ ( /\ prev.fn = "get_base_commands"
       /\ call.fn = "get_validator" /\ call.ret # None
       /\ SameMode(prev, call) )
     => (call.arg \in prev.ret <=> call.arg \notin DispatcherOnlyNames)

\* in Strict mode the base commands were read and then the dispatcher returned
\* the curl validator
C5_Witness ==
  /\ prev.fn = "get_base_commands" /\ StrictAt(prev.env)
  /\ call.fn = "get_validator" /\ call.arg = "curl" /\ call.ret # None
  /\ StrictAt(call.env)

(***************************************************************************)
(* Properties of the curl and wget validators                              *)
(***************************************************************************)

InCurl == call.fn = "validate_curl_command"

InWget == call.fn = "validate_wget_command"

\* the tokens of the command the last call was given
ArgTokens == shlex_split(call.arg).tokens

\* the command was tokenized and its first token is the tool's name
IsCommandOf(tool) ==
  /\ shlex_split(call.arg).ok
  /\ ArgTokens # <<>>
  /\ ArgTokens[1] = tool

Allowed == call.ret.raised = "" /\ call.ret.ok /\ call.ret.reason = ""

Rejected == call.ret.raised = "" /\ ~call.ret.ok /\ call.ret.reason # ""

\* p occurs in s
HasSubstr(s, p) ==
  \E i \in 1..(Len(s) - Len(p) + 1) : SubSeq(s, i, i + Len(p) - 1) = p

\* C6: for every command string whose shell tokenization fails (unbalanced
\* quotes, a trailing escape), validate_curl_command and validate_wget_command
\* return ok=false with a non-empty reason; no exception propagates and
\* ok=true is never returned, whatever flags or URL the string contains.
C6_UnparsableRejected ==
  ((InCurl \/ InWget) /\ ~shlex_split(call.arg).ok) => Rejected

\* a curl command with a loopback URL and an unterminated quote was rejected
C6_Witness ==
  /\ InCurl
  /\ call.arg = "curl localhost 'x"
  /\ ~shlex_split(call.arg).ok
  /\ Rejected

\* The command line as curl reads it.  The options of curl that take a value
\* in the next word: those of the validator's skip list except -O (remote
\* name, which takes none), and the method option.
CurlValueOptions == (CURL_SKIP_FLAGS \ {"-O"}) \cup {"-X", "--request"}

RECURSIVE CurlWordIndices(_, _)
\* the indices, from i on, of the tokens that are options or operands, the
\* values of value-taking options left out
CurlWordIndices(tokens, i) ==
  IF i > Len(tokens) THEN {}
  ELSE IF tokens[i] \in CurlValueOptions
  THEN {i} \cup CurlWordIndices(tokens, i + 2)
  ELSE {i} \cup CurlWordIndices(tokens, i + 1)

\* a word that names a target: a URL with a scheme, or a bare host
LooksLikeUrl(token) ==
  \/ IsUrlToken(token)
  \/ Contains(token, ".")
  \/ token \in {"localhost", "127.0.0.1", "::1", "0.0.0.0"}

\* the indices of the operands of the command that are target URLs
CurlTargets(tokens) ==
  {i \in CurlWordIndices(tokens, 2) :
     ~StartsWith(tokens[i], "-") /\ LooksLikeUrl(tokens[i])}

\* the host of a target, by the URL syntax scheme://[userinfo@]host[:port]/path
\* with IPv6 addresses in brackets, lower-cased
HostOfTarget(token) ==
  LET k == IndexOf(token, "/")
      rest == IF IsUrlToken(token) THEN SubSeq(token, k + 2, Len(token))
              ELSE token
      authority == SubSeq(rest, 1, NetlocEnd(rest, 1) - 1)
      hostport == AfterLast(authority, "@")
  IN Lower(IF StartsWith(hostport, "[")
           THEN Partition(Tail(hostport), "]")[1]
           ELSE Partition(hostport, ":")[1])

LoopbackTarget(token) ==
  HostOfTarget(token) \in {"localhost", "127.0.0.1", "::1", "0.0.0.0"}

\* the command has a target and every target is a loopback host
TargetsLoopback ==
  /\ CurlTargets(ArgTokens) # {}
  /\ \A i \in CurlTargets(ArgTokens) : LoopbackTarget(ArgTokens[i])

\* the command has a target and no target is a loopback host
TargetsExternal ==
  /\ CurlTargets(ArgTokens) # {}
  /\ \A i \in CurlTargets(ArgTokens) : ~LoopbackTarget(ArgTokens[i])

\* C7: for every parsable curl command whose target URL has a loopback host
\* (localhost, 127.0.0.1, ::1, 0.0.0.0, in any case, with any port or path),
\* validate_curl_command returns ok=true with an empty reason, whatever
\* upload flags or explicit methods the command carries.
C7_LoopbackAlwaysAllowed ==
  (InCurl /\ IsCommandOf("curl") /\ TargetsLoopback) => Allowed

\* the upload flags, as the claims list them
UploadFlagNames ==
  {"-d", "--data", "--data-raw", "--data-binary", "--data-urlencode",
   "--data-ascii", "-F", "--form", "-T", "--upload-file", "--json"}

\* token i is the upload flag f: alone and followed by its value, or f=value
IsUploadFlagAt(tokens, i, f) ==
  \/ tokens[i] = f /\ i + 1 <= Len(tokens)
  \/ StartsWith(tokens[i], f \o "=")

\* C8: for every curl command with a non-loopback target URL that contains
\* one of the upload flags -d, --data, --data-raw, --data-binary,
\* --data-urlencode, --data-ascii, -F, --form, -T, --upload-file, --json, as a
\* separate token followed by its value or as flag=value,
\* validate_curl_command returns ok=false and the reason names that flag (an
\* upload flag of the command, when it carries several).
C8_UploadFlagBlocked ==
  ( /\ InCurl /\ IsCommandOf("curl") /\ TargetsExternal
    /\ \E i \in CurlWordIndices(ArgTokens, 2) :
         \E f \in UploadFlagNames : IsUploadFlagAt(ArgTokens, i, f) )
  => /\ Rejected
     /\ \E i \in 2..Len(ArgTokens) :
          \E f \in UploadFlagNames :
            /\ ArgTokens[i] = f \/ StartsWith(ArgTokens[i], f \o "=")
            /\ HasSubstr(call.ret.reason, ("'" \o f) \o "'")

\* the method a word selects when it is a method option at index i: the next
\* token after -X or --request, or the value of -X=<m> or --request=<m>;
\* None when the word is no method option
MethodSelectedAt(tokens, i) ==
  IF tokens[i] \in {"-X", "--request"} /\ i + 1 <= Len(tokens)
  THEN Upper(tokens[i + 1])
  ELSE IF StartsWith(tokens[i], "-X=")
  THEN Upper(SubSeq(tokens[i], 4, Len(tokens[i])))
  ELSE IF StartsWith(tokens[i], "--request=")
  THEN Upper(SubSeq(tokens[i], 11, Len(tokens[i])))
  ELSE None

MethodOptionIndices(tokens) ==
  {i \in CurlWordIndices(tokens, 2) : MethodSelectedAt(tokens, i) # None}

NoUploadFlagToken(tokens) ==
  \A i \in 2..Len(tokens) :
    \A f \in UploadFlagNames :
      tokens[i] # f /\ ~StartsWith(tokens[i], f \o "=")

\* C9: for every curl command with a non-loopback target URL, no upload flag
\* and a single method option whose value, upper-cased, is POST, PUT or PATCH,
\* validate_curl_command returns ok=false with a reason naming the method,
\* with the option written -X <m> or --request <m> and with it written
\* --request=<m> or -X=<m>.
C9_UploadMethodBlocked ==
  ( /\ InCurl /\ IsCommandOf("curl") /\ TargetsExternal
    /\ NoUploadFlagToken(ArgTokens)
    /\ Cardinality(MethodOptionIndices(ArgTokens)) = 1
    /\ \A i \in MethodOptionIndices(ArgTokens) :
         MethodSelectedAt(ArgTokens, i) \in {"POST", "PUT", "PATCH"} )
  => /\ Rejected
     /\ \A i \in MethodOptionIndices(ArgTokens) :
          HasSubstr(call.ret.reason,
                    (" " \o MethodSelectedAt(ArgTokens, i)) \o " ")

\* no token after the command name is -X or --request followed by POST, PUT
\* or PATCH in any case, nor -X=<m> or --request=<m> with such a method
NoUploadMethodToken(tokens) ==
  \A i \in 2..Len(tokens) :
    MethodSelectedAt(tokens, i) \notin {"POST", "PUT", "PATCH"}

\* C10: for every parsable curl command in which no token is an upload flag
\* (exact or flag=value) and no -X/--request option selects POST, PUT or
\* PATCH, validate_curl_command returns ok=true with an empty reason for any
\* host, whatever header, output, credential or other options it contains.
C10_NoSignalAllowed ==
  ( /\ InCurl /\ IsCommandOf("curl")
    /\ NoUploadFlagToken(ArgTokens)
    /\ NoUploadMethodToken(ArgTokens) )
  => Allowed

\* a request with a quoted header to an external host was allowed
C10_Witness ==
  /\ InCurl
  /\ call.arg = "curl -H \"a: b\" https://e.com"
  /\ ArgTokens = <<"curl", "-H", "a: b", "https://e.com">>
  /\ Allowed

\* The command line as wget reads it.  Every option of the validator's skip
\* list takes a value in the next word when it is written without =.
WgetValueOptions == WGET_SKIP_FLAGS

RECURSIVE WgetWordIndices(_, _)
\* the indices, from i on, of the tokens that are options or operands, the
\* values of value-taking options left out
WgetWordIndices(tokens, i) ==
  IF i > Len(tokens) THEN {}
  ELSE IF tokens[i] \in WgetValueOptions
  THEN {i} \cup WgetWordIndices(tokens, i + 2)
  ELSE {i} \cup WgetWordIndices(tokens, i + 1)

\* the indices of the operands that start with http://, https:// or ftp://
WgetTargets(tokens) ==
  {i \in WgetWordIndices(tokens, 2) : IsUrlToken(tokens[i])}

\* the target URL of the command: the last such operand
WgetTarget(tokens) ==
  LET ts == WgetTargets(tokens)
  IN tokens[CHOOSE i \in ts : \A j \in ts : j <= i]

WgetBodyFlags == {"--post-data", "--post-file", "--body-data", "--body-file"}

\* the body flags the command carries, each alone and followed by its value
\* or written flag=value
WgetBodyFlagsOf(tokens) ==
  {f \in WgetBodyFlags :
     \E i \in WgetWordIndices(tokens, 2) :
       \/ tokens[i] = f /\ i + 1 <= Len(tokens)
       \/ StartsWith(tokens[i], f \o "=")}

\* the method option i selects: the next token after --method, or the value
\* of --method=<m>, upper-cased; None when token i is no method option
WgetMethodAt(tokens, i) ==
  IF tokens[i] = "--method" /\ i + 1 <= Len(tokens) THEN Upper(tokens[i + 1])
  ELSE IF StartsWith(tokens[i], "--method=")
  THEN Upper(SubSeq(tokens[i], 10, Len(tokens[i])))
  ELSE None

\* the methods the --method options of the command select
WgetMethodsOf(tokens) ==
  {WgetMethodAt(tokens, i) : i \in WgetWordIndices(tokens, 2)} \ {None}

\* the reason names an upload flag written in the command (a body flag or
\* the method option), or an uploading method the command selects
NamesWgetSignal(reason, tokens) ==
  \/ \E f \in WgetBodyFlags \cup {"--method"} :
       /\ \E i \in 2..Len(tokens) :
            tokens[i] = f \/ StartsWith(tokens[i], f \o "=")
       /\ HasSubstr(reason, ("'" \o f) \o "'")
  \/ \E m \in WgetMethodsOf(tokens) \cap UPLOAD_METHODS :
       HasSubstr(reason, "--method=" \o m)

\* the command is a wget command with a target and an upload signal
WgetUploadToTarget ==
  /\ InWget /\ IsCommandOf("wget")
  /\ WgetTargets(ArgTokens) # {}
  /\ \/ WgetBodyFlagsOf(ArgTokens) # {}
     \/ WgetMethodsOf(ArgTokens) \cap UPLOAD_METHODS # {}

\* C11: for every parsable wget command carrying --post-data, --post-file,
\* --body-data or --body-file (value attached with = or in the next token) or
\* --method with value POST, PUT or PATCH, validate_wget_command returns
\* ok=true when the host of the target URL is loopback, and ok=false with a
\* reason naming the flag or the method when it is not.
C11_WgetUploadByTarget ==
  WgetUploadToTarget =>
    IF LoopbackTarget(WgetTarget(ArgTokens)) THEN Allowed
    ELSE Rejected /\ NamesWgetSignal(call.ret.reason, ArgTokens)

\* C12: every result returned by validate_curl_command and
\* validate_wget_command, on every input and every return path, has an empty
\* reason exactly when ok is true.
C12_ReasonEmptyIffOk ==
  (InCurl \/ InWget) =>
    /\ call.ret.raised = ""
    /\ call.ret.ok <=> (call.ret.reason = "")

\* an upload to an external host was rejected with a reason naming the flag
C12_Witness ==
  /\ InCurl
  /\ call.arg = "curl -d x https://e.com"
  /\ ~call.ret.ok
  /\ HasSubstr(call.ret.reason, "curl with '-d' blocked")

HasUploadFlagToken(tokens) == ~NoUploadFlagToken(tokens)

\* C14: in validate_curl_command, when the command has no loopback target (a
\* non-loopback URL, or no URL at all) and any token after the command name
\* is an upload flag (exact or flag=value), the result is ok=false whatever
\* tokens precede or follow the flag; a preceding option the scan treats as
\* argument-consuming, such as -O, does not get the flag skipped.
C14_UploadFlagNeverSkipped ==
  ( /\ InCurl /\ IsCommandOf("curl")
    /\ \A i \in CurlTargets(ArgTokens) : ~LoopbackTarget(ArgTokens[i])
    /\ HasUploadFlagToken(ArgTokens) )
  => Rejected

\* the command carries an upload signal: an upload flag token, or a method
\* option selecting POST, PUT or PATCH
HasUploadSignal(tokens) ==
  \/ HasUploadFlagToken(tokens)
  \/ \E i \in MethodOptionIndices(tokens) :
       MethodSelectedAt(tokens, i) \in {"POST", "PUT", "PATCH"}

\* C15: validate_curl_command returns ok=true for a command carrying an
\* upload signal only if every URL target of the command has a loopback host:
\* with an upload flag or a POST/PUT/PATCH method and at least one
\* non-loopback target the command is rejected, also when a loopback URL or
\* loopback alias appears earlier in the command.
C15_EveryTargetLoopback ==
  ( /\ InCurl /\ IsCommandOf("curl")
    /\ HasUploadSignal(ArgTokens)
    /\ \E i \in CurlTargets(ArgTokens) : ~LoopbackTarget(ArgTokens[i]) )
  => Rejected

\* the target URL of a wget command, None when it has none
WgetTargetOrNone(tokens) ==
  IF WgetTargets(tokens) = {} THEN None ELSE WgetTarget(tokens)

\* C16: validate_wget_command takes as target URL the last token that starts
\* with http://, https:// or ftp:// and is not the argument of an
\* argument-consuming flag (-O, -o, --header, --referer, --post-data, ...); a
\* URL-shaped value of such a flag is never used as the target, so it does
\* not make an upload to an external URL count as loopback.
C16_WgetTargetSkipsOptionValues ==
  (InWget /\ IsCommandOf("wget")) =>
    /\ WgetUrlFrom(ArgTokens, Len(ArgTokens)) = WgetTargetOrNone(ArgTokens)
    /\ ( /\ WgetScan(ArgTokens, 2, NothingFound).has_upload_data
         /\ WgetTargets(ArgTokens) # {}
         /\ ~LoopbackTarget(WgetTarget(ArgTokens)) )
       => Rejected

\* no token after the command name is a body flag, exact or flag=value
NoWgetBodyFlagToken(tokens) ==
  \A i \in 2..Len(tokens) :
    \A f \in WgetBodyFlags :
      tokens[i] # f /\ ~StartsWith(tokens[i], f \o "=")

\* C17: validate_wget_command allows GET requests to any host: a parsable
\* wget command with no --post-data, --post-file, --body-data or --body-file
\* flag and whose --method value, if any, is not POST, PUT or PATCH (such as
\* --method=GET or --method HEAD) returns ok=true for loopback and
\* non-loopback targets alike; --method is an upload signal only with an
\* uploading method value.
C17_WgetNonUploadAllowed ==
  ( /\ InWget /\ IsCommandOf("wget")
    /\ WgetTargets(ArgTokens) # {}
    /\ NoWgetBodyFlagToken(ArgTokens)
    /\ \A i \in WgetWordIndices(ArgTokens, 2) :
         ArgTokens[i] = "--method" => i + 1 <= Len(ArgTokens)
    /\ WgetMethodsOf(ArgTokens) \cap UPLOAD_METHODS = {} )
  => Allowed

RECURSIVE SignalScanValues(_, _)
\* the indices, from i on, of the tokens the signal scan of
\* validate_curl_command passes over as the value of an option: the token
\* after -X or --request, and the token after an option of the skip list
SignalScanValues(tokens, i) ==
  IF i > Len(tokens) THEN {}
  ELSE
    LET is_method == tokens[i] \in {"-X", "--request"} /\ i + 1 <= Len(tokens)
        i1 == IF is_method THEN i + 1 ELSE i
        is_skip == StartsWith(tokens[i], "-") /\ tokens[i] \in CURL_SKIP_FLAGS
        i2 == IF is_skip THEN i1 + 1 ELSE i1
    IN (IF is_method THEN {i + 1} ELSE {})
       \cup (IF is_skip /\ i1 + 1 <= Len(tokens) THEN {i1 + 1} ELSE {})
       \cup SignalScanValues(tokens, i2 + 1)

\* the URL the validator classifies comes from token i
UrlComesFrom(url, tokens, i) ==
  url = tokens[i] \/ url = "http://" \o tokens[i]

\* C18: in validate_curl_command the signal scan and the URL scan agree on
\* which tokens are option arguments: a token the signal scan consumes as the
\* value of an option (the value after -X or --request included) is never
\* selected as the target URL, so an option value equal to a loopback alias
\* (-X localhost) does not make a command that uploads to an external URL be
\* classified as loopback.
C18_ScansAgreeOnOptionValues ==
  (InCurl /\ IsCommandOf("curl")) =>
    LET url == _extract_url_from_tokens(ArgTokens, CURL_SKIP_FLAGS)
        found == CurlScan(ArgTokens, 2, NothingFound)
    IN /\ url # None =>
            \E i \in (2..Len(ArgTokens)) \ SignalScanValues(ArgTokens, 2) :
              UrlComesFrom(url, ArgTokens, i)
       /\ ( /\ ( found.has_upload_data \/
                 found.explicit_method \in UPLOAD_METHODS )
            /\ TargetsExternal )
          => Rejected

(***************************************************************************)
(* Properties of the gate decision                                         *)
(***************************************************************************)

\* the outcome of the gate for command c when every step reads the same mode
ConstantModeOutcome(c, strict) ==
  LET name == CommandName(c)
      validator == ResultInMode("get_validator", name, strict)
  IN IF name \notin ResultInMode("get_base_commands", "", strict) THEN "deny"
     ELSE IF validator = None THEN "allow"
     ELSE IF RunValidator(validator, c).ok THEN "allow"
     ELSE "deny"

\* C19: for a gate decision made as three steps (classify with
\* get_base_commands, dispatch with get_validator, run the returned validator
\* if any), each step reading the mode afresh, with changes of the mode and
\* calls of other callers interleaved between the steps, the final outcome
\* for every command equals the outcome the command gets with the mode held
\* constant at the value read at classification or at the value read at
\* dispatch; no command is allowed that both constant modes reject.
C19_GateOutcomeOfSomeReadMode ==
  gate.pc = "done" =>
    /\ \E k \in 1..Len(gate.modes) :
         gate.outcome = ConstantModeOutcome(cmd, gate.modes[k])
    /\ gate.outcome = "allow" =>
         \E strict \in BOOLEAN : ConstantModeOutcome(cmd, strict) = "allow"

\* an upload with curl was classified in Normal mode, dispatched in Strict
\* mode, and rejected by the validator after the setting was removed again
C19_Witness ==
  /\ gate.pc = "done"
  /\ cmd = "curl -d x https://e.com"
  /\ gate.modes = <<FALSE, TRUE>>
  /\ gate.validator = "validate_curl_command"
  /\ gate.outcome = "deny"
  /\ env = <<>>

====
